---- MODULE Spec2Model ----
(***************************************************************************)
(* Model of src/chatbot.py: the tool-dispatch conversation loop            *)
(* (process_user_input), the tool registry (available_tools, tools_dict)   *)
(* and the three lookup adapters of ChatbotTools.                          *)
(*                                                                         *)
(* Texts are sequences of string fragments: an f-string is the sequence of *)
(* its literal parts and interpolated values, so "the text contains the    *)
(* location" is "the location is one of its fragments".  The external      *)
(* services (completion service, geocoder, weather, news, Wolfram) are     *)
(* inputs: every outcome they can produce is drawn with \E.                *)
(***************************************************************************)
EXTENDS FiniteSets, Integers, Sequences, TLC

\* Total number of tool-call requests the completion service hands out over
\* the whole conversation (they are numbered 1..MaxToolCalls).
MaxToolCalls == 3

(***************************************************************************)
(* Python values: outcomes of a call, the exception classes that occur.    *)
(***************************************************************************)
Return(v) == [kind |-> "return", value |-> v, exc |-> "-"]
Raise(cls, msg) == [kind |-> "raise", value |-> msg, exc |-> cls]

\* The direct base class of each exception class used by the program.
BaseClass(cls) ==
    CASE cls = "JSONDecodeError"   -> "ValueError"
      [] cls = "UnboundLocalError" -> "NameError"
      [] cls = "HTTPError"         -> "RequestException"
      [] cls = "RequestException"  -> "OSError"
      [] cls = "APIConnectionError" -> "OpenAIError"
      [] OTHER                     -> "Exception"

\* `except handler:` catches an exception of class cls.
RECURSIVE isinstance(_, _)
isinstance(cls, handler) ==
    \/ cls = handler
    \/ cls # "Exception" /\ isinstance(BaseClass(cls), handler)

\* str(e) of a caught exception (the message it was raised with).
str_e(out) == out.value

\* str(function_response): every adapter returns a str, which str() returns
\* as it is.
py_str(v) == v

Contains(text, frag) == \E i \in DOMAIN text : text[i] = frag

(***************************************************************************)
(* json.loads on the argument payloads the completion service sends.       *)
(***************************************************************************)
ArgWeather   == "{\"location\": \"Albany, NY\"}"
ArgNews      == "{\"category\": \"technology\", \"country\": \"us\"}"
ArgQuery     == "{\"query\": \"10 densest elemental metals\"}"
ArgTruncated == "{\"location\": \"Albany, NY\""

\* A parser that repairs a payload cut short instead of rejecting it.
json_loads_lenient(s) ==
    CASE s = ArgNews    -> Return([category |-> "technology", country |-> "us"])
      [] s = ArgQuery   -> Return([query |-> "10 densest elemental metals"])
      [] OTHER          -> Return([location |-> "Albany, NY"])

json_loads(s) ==
    CASE s = ArgWeather -> Return([location |-> "Albany, NY"])
      [] s = ArgNews    -> Return([category |-> "technology", country |-> "us"])
      [] s = ArgQuery   -> Return([query |-> "10 densest elemental metals"])
      [] OTHER          -> Raise("JSONDecodeError", "Expecting ',' delimiter")

(***************************************************************************)
(* Lookup adapters (class ChatbotTools).  `env` is what the providers      *)
(* answer: env.geo, env.http in {"ok", "empty", "http_error"}.            *)
(***************************************************************************)
\* What each adapter did on the network, for the record of an invocation.
HttpGeocode == <<"GET geo/1.0/direct">>
HttpWeather == <<"GET data/2.5/weather">>
HttpNews    == <<"GET v2/top-headlines">>
HttpWolfram == <<"GET api/v1/llm-api">>

RequestError == Raise("HTTPError", "503 Server Error: Service Unavailable")

get_coordinates(location, env) ==
    IF env.geo = "http_error"
    THEN Return([error |-> <<"Geocoding API error: ", str_e(RequestError)>>])
    ELSE IF env.geo = "empty"
    THEN \* `e` is read before any except clause bound it
         Raise("UnboundLocalError",
               "cannot access local variable 'e' where it is not associated with a value")
    ELSE Return([latitude |-> 42, longitude |-> -73,
                 location_name |-> "Albany", country |-> "US",
                 state |-> "New York"])

weather_data == [temp |-> "51.3", feels_like |-> "49.8",
                 description |-> "overcast clouds", humidity |-> "71",
                 speed |-> "8.05"]

get_weather_format(coords, units) ==
    LET temp_unit == IF units = "imperial" THEN "degF" ELSE "degC"
        wind_unit == IF units = "imperial" THEN "mph" ELSE "m/s"
    IN  <<"Weather in ", coords.location_name, ", ", coords.country, ": ",
          "Temperature: ", weather_data.temp, temp_unit, ", ",
          "Feels like: ", weather_data.feels_like, temp_unit, ". ",
          "Conditions: ", weather_data.description, ". ",
          "Humidity: ", weather_data.humidity, "%. ",
          "Wind Speed: ", weather_data.speed, " ", wind_unit, ".">>

\* [out |-> outcome of the call, http |-> requests issued, in order]
get_weather(location, units, env) ==
    LET c == get_coordinates(location, env) IN
    IF c.kind = "raise"
    THEN [out |-> c, http |-> HttpGeocode]
    ELSE LET coords == c.value IN
         IF "error" \in DOMAIN coords
         THEN [out |-> Return(coords.error), http |-> HttpGeocode]
         ELSE IF ~ ({"latitude", "longitude"} \subseteq DOMAIN coords)
         THEN [out |-> Return(<<"Could not retrieve coordinates for ", location,
                                ". Please check the location name.">>),
               http |-> HttpGeocode]
         ELSE IF env.http = "http_error"
         THEN [out |-> Return(<<"Error retrieving weather for ", location, ": ",
                                str_e(RequestError)>>),
               http |-> HttpGeocode \o HttpWeather]
         ELSE [out |-> Return(get_weather_format(coords, units)),
               http |-> HttpGeocode \o HttpWeather]

\* JSON values of a provider body: a string, or null (Python None).
JStr(v) == [t |-> "str", v |-> v]
JNull == [t |-> "null", v |-> "None"]

\* response.json() of the news provider on a 2xx answer: the usual body, a
\* body without 'articles', and a body whose first title is null.
NewsBody(answer) ==
    CASE answer = "no_articles" ->
            [status |-> "error"]
      [] answer = "null_title" ->
            [status |-> "ok",
             articles |-> << [title |-> JNull], [title |-> JStr("Headline B")] >>]
      [] OTHER ->
            [status |-> "ok",
             articles |-> << [title |-> JStr("Headline A")], [title |-> JStr("Headline B")],
                             [title |-> JStr("Headline C")], [title |-> JStr("Headline D")] >>]

\* xs[:n]
Take(xs, n) == SubSeq(xs, 1, IF Len(xs) < n THEN Len(xs) ELSE n)

RECURSIVE join(_, _)
join(sep, xs) ==
    IF xs = <<>> THEN <<>>
    ELSE IF Len(xs) = 1 THEN xs
    ELSE <<Head(xs), sep>> \o join(sep, Tail(xs))

get_news(category, country, env) ==
    IF env.http = "http_error"
    THEN [out |-> Return(<<"Could not retrieve ", category, " news for ", country,
                           ". Error: ", str_e(RequestError)>>),
          http |-> HttpNews]
    ELSE LET news_data == NewsBody(env.http) IN
         IF "articles" \notin DOMAIN news_data
         THEN \* news_data['articles']: not a RequestException, leaves the adapter
              [out |-> Raise("KeyError", "'articles'"), http |-> HttpNews]
         ELSE LET first == Take(news_data.articles, 3) IN
         IF \E i \in DOMAIN first : "title" \notin DOMAIN first[i]
         THEN [out |-> Raise("KeyError", "'title'"), http |-> HttpNews]
         ELSE LET headlines == [i \in DOMAIN first |-> first[i].title]
                  notstr == {i \in DOMAIN headlines : headlines[i].t # "str"}
              IN
              IF notstr # {}
              THEN \* "; ".join(headlines) on an item that is not a str
                   [out |-> Raise("TypeError",
                              "sequence item "
                              \o ToString((CHOOSE i \in notstr : \A j \in notstr : i <= j) - 1)
                              \o ": expected str instance, NoneType found"),
                    http |-> HttpNews]
              ELSE [out |-> Return(<<"Top Headlines: ">>
                              \o join("; ", [i \in DOMAIN headlines |-> headlines[i].v])),
                    http |-> HttpNews]

wolfram_query(query, maxchars, env) ==
    IF env.http = "http_error"
    THEN [out |-> Return(<<"Could not process wolfram query: ",
                           str_e(RequestError)>>),
          http |-> HttpWolfram]
    ELSE [out |-> Return(<<"Answer from Wolfram|Alpha for: ", query>>),
          http |-> HttpWolfram]

(***************************************************************************)
(* Tool registry.                                                          *)
(***************************************************************************)
\* Keys of available_tools.
available_tools == {"get_weather", "get_news", "wolfram_query"}

\* Names of the descriptors in tools_dict, in order.
tools_dict == <<"get_weather", "get_news", "translate_text">>

\* Parameter names of each adapter, and those without a default.
Params(name) ==
    CASE name = "get_weather"   -> {"location", "units"}
      [] name = "get_news"      -> {"category", "country"}
      [] name = "wolfram_query" -> {"query", "maxchars"}
      [] OTHER                  -> {}

Required(name) ==
    CASE name = "get_weather"   -> {"location"}
      [] name = "wolfram_query" -> {"query"}
      [] OTHER                  -> {}

\* The message of the TypeError of a call whose keywords do not bind.
BindError(name, args) ==
    LET extra == DOMAIN args \ Params(name) IN
    IF extra # {}
    THEN "ChatbotTools." \o name \o "() got an unexpected keyword argument '"
         \o (CHOOSE k \in extra : TRUE) \o "'"
    ELSE "ChatbotTools." \o name \o "() missing 1 required positional argument: '"
         \o (CHOOSE k \in Required(name) \ DOMAIN args : TRUE) \o "'"

NotCalled(out) == [out |-> out, http |-> <<>>, entered |-> FALSE]
Called(r) == [out |-> r.out, http |-> r.http, entered |-> TRUE]

\* available_tools[function_name](**function_args): Python binds the keyword
\* arguments (TypeError on an unexpected or a missing one), then runs the body.
call_tool(name, args, env) ==
    IF ~ (DOMAIN args \subseteq Params(name) /\ Required(name) \subseteq DOMAIN args)
    THEN NotCalled(Raise("TypeError", BindError(name, args)))
    ELSE CASE name = "get_weather" ->
                Called(get_weather(args.location,
                                   IF "units" \in DOMAIN args THEN args.units
                                                              ELSE "imperial",
                                   env))
           [] name = "get_news" ->
                Called(get_news(IF "category" \in DOMAIN args THEN args.category
                                                               ELSE "technology",
                                IF "country" \in DOMAIN args THEN args.country
                                                              ELSE "us",
                                env))
           [] name = "wolfram_query" ->
                Called(wolfram_query(args.query,
                                     IF "maxchars" \in DOMAIN args THEN args.maxchars
                                                                   ELSE 500,
                                     env))

\* What the providers can answer to the adapter of a tool.
Env(geo, http) == [geo |-> geo, http |-> http]
ProviderOutcomes(name) ==
    IF name = "get_weather"
    THEN {Env("ok", "ok"), Env("ok", "http_error"),
          Env("empty", "ok"), Env("http_error", "ok")}
    ELSE IF name = "get_news"
    THEN {Env("ok", "ok"), Env("ok", "http_error"),
          Env("ok", "no_articles"), Env("ok", "null_title")}
    ELSE {Env("ok", "ok"), Env("ok", "http_error")}

(***************************************************************************)
(* Messages of the transcript.                                             *)
(***************************************************************************)
NoneValue == <<"<None>">>

Message(role, content, tool_calls, tool_call_id) ==
    [role |-> role, content |-> content, tool_calls |-> tool_calls,
     tool_call_id |-> tool_call_id]

SystemMessage ==
    Message("system",
            <<"You are an assistant used for three main functions: current weather reporting by a given location, current news for a given location and category, and passing a factual question to a wolfram alpha llm.">>,
            <<>>, 0)

UserMessage(user_input) == Message("user", user_input, <<>>, 0)

\* The tool message without the adapter's result.
ToolMessage_no_result(function_response, tool_call) ==
    Message("tool", NoneValue, <<>>, tool_call.id)

ToolMessage(function_response, tool_call) ==
    Message("tool", py_str(function_response), <<>>, tool_call.id)

AssistantMessage(content) == Message("assistant", content, <<>>, 0)

\* list.append
list_append_front(list, x) == <<x>> \o list

list_append(list, x) == Append(list, x)

test_inputs ==
    << <<"What's the weather like in Albany, NY?">>,
       <<"What tech news is there in Albany, NY">>,
       <<"What are the 10 densest elemental metals">> >>

(***************************************************************************)
(* process_user_input, one tool-call request of the for loop.              *)
(***************************************************************************)
\* except Exception as unexpected_error (the outermost handler)
outer_except(out) ==
    IF isinstance(out.exc, "Exception")
    THEN Return(<<"Unexpected error processing request: ", str_e(out)>>)
    ELSE out

Abort(result, call) ==
    [action |-> "return", result |-> result, call |-> call]
Continue(call) ==
    [action |-> "append", result |-> call.out, call |-> call]

\* An unknown name answered as if it were a tool result, the loop going on.
unknown_tool_continue(function_name, parsed) ==
    Continue(NotCalled(Return(<<"Error: Function ", function_name,
                                " not found in available tools">>)))

\* if function_name not in available_tools: return ...
unknown_tool(function_name, parsed) ==
    Abort(Return(<<"Error: Function ", function_name,
                   " not found in available tools">>),
          NotCalled(parsed))

handle_tool_call(tool_call, env) ==
    LET function_name == tool_call.name
        parsed == json_loads(tool_call.arguments)
    IN
    IF parsed.kind = "raise"
    THEN IF isinstance(parsed.exc, "JSONDecodeError")
         THEN Abort(Return(<<"Error: Invalid JSON arguments for function ",
                             function_name>>),
                    NotCalled(parsed))
         ELSE Abort(outer_except(parsed), NotCalled(parsed))
    ELSE IF function_name \notin available_tools
    THEN unknown_tool(function_name, parsed)
    ELSE LET call == call_tool(function_name, parsed.value, env) IN
         IF call.out.kind = "return"
         THEN Continue(call)
         ELSE IF isinstance(call.out.exc, "TypeError")
         THEN Abort(Return(<<"Error: Incorrect arguments for ", function_name,
                             ". Details: ", str_e(call.out)>>), call)
         ELSE IF isinstance(call.out.exc, "Exception")
         THEN Abort(Return(<<"Error executing ", function_name, ": ",
                             str_e(call.out)>>), call)
         ELSE Abort(outer_except(call.out), call)

(***************************************************************************)
(* The completion service: what client.chat.completions.create can answer. *)
(***************************************************************************)
ToolCall(id, name, arguments) == [id |-> id, name |-> name, arguments |-> arguments]

\* The (name, arguments) pairs the service may put in a tool-call request:
\* each registered tool with arguments it accepts, a payload cut short, a
\* registered tool with another tool's arguments, and the advertised name
\* that the registry does not know.
ToolCallChoices ==
    { <<"get_weather", ArgWeather>>, <<"get_weather", ArgTruncated>>,
      <<"get_news", ArgNews>>, <<"get_news", ArgQuery>>,
      <<"wolfram_query", ArgQuery>>,
      <<"translate_text", ArgQuery>>, <<"translate_text", ArgTruncated>> }

ReplyContent == <<"It is a language model reply.">>
FinalContent == <<"Here is what the tools found.">>
APIError == Raise("APIConnectionError", "Connection error.")

NoResponse == [kind |-> "none", content |-> NoneValue, tool_calls |-> <<>>]
FailedResponse == [kind |-> "raise", content |-> NoneValue, tool_calls |-> <<>>]
ResponseMessage(content, tool_calls) ==
    [kind |-> "message", content |-> content, tool_calls |-> tool_calls]

\* Responses to the first request: a plain reply, or 1..room tool-call
\* requests numbered from first_id.
FirstResponses(first_id, room) ==
    {ResponseMessage(content, <<>>) : content \in {ReplyContent, NoneValue}} \cup
    UNION { { ResponseMessage(NoneValue,
                  [i \in 1..n |-> ToolCall(first_id + i - 1, c[i][1], c[i][2])]) :
              c \in [1..n -> ToolCallChoices] } : n \in 1..room }

\* A completion request as issued: the messages and tools passed, and whether
\* the service answered it (ok) or the call raised.
CompletionRequest(messages, tools, ok) ==
    [messages |-> messages, tools |-> tools, ok |-> ok]

\* The second request passes no `tools` argument.
SynthesisToolsOffered == tools_dict

SynthesisTools == <<>>

(***************************************************************************)
(* State.                                                                  *)
(***************************************************************************)
VARIABLES
    message_list,   \* the module-level transcript
    pc,             \* where process_user_input stands: idle, select, dispatch, synth
    turn,           \* calls of process_user_input started so far
    response,       \* the first completion's response of the current call
    idx,            \* position of the for loop in response.tool_calls
    result,         \* what the current (or last) call returned
    requests,       \* completion requests issued by the current call, in order
    invoked,        \* adapter invocations of the current call, in order
    next_id         \* number of the next tool-call request the service creates

vars == <<message_list, pc, turn, response, idx, result, requests, invoked, next_id>>

Pending == [kind |-> "pending", value |-> NoneValue, exc |-> "-"]

Init ==
    /\ message_list = <<SystemMessage>>
    /\ pc = "idle"
    /\ turn = 0
    /\ response = NoResponse
    /\ idx = 0
    /\ result = Pending
    /\ requests = <<>>
    /\ invoked = <<>>
    /\ next_id = 1

\* if response_message.tool_calls:
WantsToolsAlways(message) == TRUE

WantsTools(message) == message.tool_calls # <<>>

\* process_user_input(user_input) is entered: the user message is appended.
Call ==
    /\ pc = "idle"
    /\ turn < Len(test_inputs)
    /\ turn' = turn + 1
    /\ message_list' = list_append(message_list, UserMessage(test_inputs[turn + 1]))
    /\ pc' = "select"
    /\ response' = NoResponse
    /\ idx' = 0
    /\ result' = Pending
    /\ requests' = <<>>
    /\ invoked' = <<>>
    /\ UNCHANGED next_id

\* The first completion request fails.
SelectFail ==
    /\ pc = "select"
    /\ requests' = Append(requests, CompletionRequest(message_list, tools_dict, FALSE))
    /\ response' = FailedResponse
    /\ result' = IF isinstance(APIError.exc, "Exception")
                 THEN Return(<<"OpenAI API Error: ", str_e(APIError)>>)
                 ELSE outer_except(APIError)
    /\ pc' = "idle"
    /\ UNCHANGED <<message_list, turn, idx, invoked, next_id>>

\* The first completion request succeeds: the response message is appended,
\* and either returned or its tool-call requests are looped over.
Select ==
    /\ pc = "select"
    /\ requests' = Append(requests, CompletionRequest(message_list, tools_dict, TRUE))
    /\ \E msg \in FirstResponses(next_id, MaxToolCalls - next_id + 1) :
         /\ response' = msg
         /\ next_id' = next_id + Len(msg.tool_calls)
         /\ message_list' = list_append(message_list,
                Message("assistant", msg.content, msg.tool_calls, 0))
         /\ IF WantsTools(msg)
            THEN /\ pc' = IF Len(msg.tool_calls) = 0 THEN "synth" ELSE "dispatch"
                 /\ idx' = 1
                 /\ result' = result
            ELSE /\ pc' = "idle"
                 /\ idx' = idx
                 /\ result' = Return(msg.content)
    /\ UNCHANGED <<turn, invoked>>

Invocation(tool_call, env, call) ==
    [id |-> tool_call.id, name |-> tool_call.name, arguments |-> tool_call.arguments,
     env |-> env, out |-> call.out, http |-> call.http]

\* One iteration of `for tool_call in response_message.tool_calls`.
Dispatch ==
    /\ pc = "dispatch"
    /\ LET tool_call == response.tool_calls[idx] IN
       \E env \in ProviderOutcomes(tool_call.name) :
         LET h == handle_tool_call(tool_call, env) IN
         /\ invoked' = IF h.call.entered
                       THEN Append(invoked, Invocation(tool_call, env, h.call))
                       ELSE invoked
         /\ IF h.action = "return"
            THEN /\ result' = h.result
                 /\ pc' = "idle"
                 /\ UNCHANGED <<message_list, idx>>
            ELSE /\ message_list' = list_append(message_list,
                        ToolMessage(h.result.value, tool_call))
                 /\ idx' = idx + 1
                 /\ pc' = IF idx = Len(response.tool_calls) THEN "synth" ELSE "dispatch"
                 /\ result' = result
    /\ UNCHANGED <<turn, response, requests, next_id>>

\* The second completion request (no tools offered) fails.
SynthesizeFail ==
    /\ pc = "synth"
    /\ requests' = Append(requests, CompletionRequest(message_list, SynthesisTools, FALSE))
    /\ result' = IF isinstance(APIError.exc, "Exception")
                 THEN Return(<<"Error generating final response: ", str_e(APIError)>>)
                 ELSE outer_except(APIError)
    /\ pc' = "idle"
    /\ UNCHANGED <<message_list, turn, response, idx, invoked, next_id>>

\* The second completion request succeeds: its content (a text, or None) is
\* appended and returned.
Synthesize ==
    /\ pc = "synth"
    /\ requests' = Append(requests, CompletionRequest(message_list, SynthesisTools, TRUE))
    /\ \E content \in {FinalContent, NoneValue} :
         /\ message_list' = list_append(message_list, AssistantMessage(content))
         /\ result' = Return(content)
    /\ pc' = "idle"
    /\ UNCHANGED <<turn, response, idx, invoked, next_id>>

Next ==
    \/ Call
    \/ SelectFail
    \/ Select
    \/ Dispatch
    \/ SynthesizeFail
    \/ Synthesize

Spec == Init /\ [][Next]_vars

TypeOK ==
    /\ pc \in {"idle", "select", "dispatch", "synth"}
    /\ turn \in 0..Len(test_inputs)
    /\ next_id \in 1..(MaxToolCalls + 1)

(***************************************************************************)
(* Vocabulary of the properties.                                           *)
(***************************************************************************)
Done == pc = "idle" /\ turn > 0
Calls == response.tool_calls
Answered == response.kind = "message"
\* No adapter invoked by the current call raised.
AdaptersReturned == \A k \in DOMAIN invoked : invoked[k].out.kind = "return"
InvokedIds == {invoked[k].id : k \in DOMAIN invoked}
IsPrefix(a, b) == Len(a) <= Len(b) /\ SubSeq(b, 1, Len(a)) = a
IsText(v) == v # NoneValue /\ DOMAIN v = 1..Len(v) /\ \A i \in DOMAIN v : v[i] \in STRING

InvalidJsonError(name) ==
    Return(<<"Error: Invalid JSON arguments for function ", name>>)
UnknownToolError(name) ==
    Return(<<"Error: Function ", name, " not found in available tools">>)

\* The request is cut short (not valid JSON).
Malformed(tc) == tc.arguments = ArgTruncated
\* The request names a registered tool with arguments its adapter accepts.
Accepted(tc) ==
    \/ tc.name = "get_weather" /\ tc.arguments = ArgWeather
    \/ tc.name = "get_news" /\ tc.arguments = ArgNews
    \/ tc.name = "wolfram_query" /\ tc.arguments = ArgQuery
\* Position in message_list of the assistant message of the current call.
ResponsePos == Len(requests[1].messages) + 1

(***************************************************************************)
(* C1: when the first completion response carries no tool-call requests,   *)
(* the call has ended with exactly one completion request issued, no       *)
(* adapter invoked, and the response's content returned unchanged.         *)
(***************************************************************************)
C1_NoToolsOneRequest ==
    (Answered /\ Calls = <<>>) =>
        /\ pc = "idle"
        /\ Len(requests) = 1
        /\ invoked = <<>>
        /\ result = Return(response.content)

C1_Witness ==
    /\ pc = "idle" /\ turn = 2
    /\ response = ResponseMessage(ReplyContent, <<>>)
    /\ result = Return(ReplyContent)
    /\ Len(requests) = 1

(***************************************************************************)
(* C2 as stated: every call whose first response carries exactly one       *)
(* tool-call request naming a registered tool issues exactly two           *)
(* completion requests and exactly one adapter invocation, the tool        *)
(* message with the adapter's result being in the second request.  It is   *)
(* stated for the calls in which no adapter raised, so that its failure    *)
(* does not rest on a defect of an adapter (C5).                           *)
(***************************************************************************)
C2_Original ==
    (Done /\ Answered /\ Len(Calls) = 1 /\ Calls[1].name \in available_tools
          /\ AdaptersReturned) =>
        /\ Len(requests) = 2
        /\ Len(invoked) = 1
        /\ \E j \in DOMAIN requests[2].messages :
              requests[2].messages[j] =
                  Message("tool", invoked[1].out.value, <<>>, Calls[1].id)

(***************************************************************************)
(* C2 amended: such a call issues at most two completion requests and at   *)
(* most one adapter invocation; the second request is issued exactly when  *)
(* the arguments parsed and the adapter was invoked and returned, and then *)
(* the tool message holding the adapter's result is the last message of    *)
(* the transcript sent with the second request.                            *)
(***************************************************************************)
C2_OneToolTwoRequests ==
    (Done /\ Answered /\ Len(Calls) = 1 /\ Calls[1].name \in available_tools) =>
        /\ Len(requests) \in {1, 2}
        /\ Len(invoked) <= 1
        /\ Len(requests) = 2 <=>
              /\ ~ Malformed(Calls[1])
              /\ Len(invoked) = 1
              /\ invoked[1].out.kind = "return"
        /\ Len(requests) = 2 =>
              LET sent == requests[2].messages IN
              /\ Len(sent) = ResponsePos + 1
              /\ sent[Len(sent)] =
                    Message("tool", invoked[1].out.value, <<>>, Calls[1].id)

C2_Witness ==
    /\ Done /\ Answered /\ Len(Calls) = 1 /\ Calls[1].name = "get_weather"
    /\ Len(requests) = 2 /\ Len(invoked) = 1
    /\ requests[2].messages[ResponsePos + 1].role = "tool"

(***************************************************************************)
(* C3 as stated: every call in which a tool-call request names a tool that *)
(* is not registered returns the unknown-tool error for that name,         *)
(* dispatches no request after it and issues no synthesis request.  It is  *)
(* stated for the calls in which no adapter raised, so that its failure    *)
(* does not rest on a defect of an adapter (C5).                           *)
(***************************************************************************)
C3_Original ==
    (Done /\ Answered /\ AdaptersReturned) =>
        \A i \in DOMAIN Calls :
            Calls[i].name \notin {"get_weather", "get_news", "wolfram_query"} =>
                /\ result = UnknownToolError(Calls[i].name)
                /\ idx <= i
                /\ Len(requests) = 1

(***************************************************************************)
(* C3 amended: when a tool-call request names an unregistered tool, no     *)
(* request after it is dispatched and no synthesis request is issued; and  *)
(* when the loop reaches that request (every earlier one was dispatched)   *)
(* and its arguments are valid JSON, the call returns the unknown-tool     *)
(* error for that name.                                                    *)
(***************************************************************************)
C3_UnknownToolAborts ==
    (Done /\ Answered) =>
        \A i \in DOMAIN Calls :
            Calls[i].name \notin {"get_weather", "get_news", "wolfram_query"} =>
                /\ idx <= i
                /\ \A k \in DOMAIN invoked : invoked[k].id < Calls[i].id
                /\ Len(requests) = 1
                /\ (idx = i /\ ~ Malformed(Calls[i])) =>
                       result = UnknownToolError(Calls[i].name)

C3_Witness ==
    /\ Done /\ Answered /\ Len(Calls) = 3 /\ idx = 2
    /\ Calls[2].name = "translate_text"
    /\ Len(invoked) = 1
    /\ result = UnknownToolError("translate_text")

(***************************************************************************)
(* C4: every call of process_user_input returns a text; no exception       *)
(* escapes, whatever the completion service, the argument parsing, the     *)
(* registry lookup or the adapter did.                                     *)
(***************************************************************************)
C4_AlwaysReturnsText ==
    Done => result.kind = "return" /\ IsText(result.value)

(***************************************************************************)
(* C5: get_weather called with a location for which the geocoder answers   *)
(* an empty list returns (does not raise) an error text containing the     *)
(* location, and issues no forecast request.                               *)
(***************************************************************************)
C5_UnresolvedLocationReturnsError ==
    \A k \in DOMAIN invoked :
        (invoked[k].name = "get_weather" /\ invoked[k].env.geo = "empty") =>
            /\ invoked[k].out.kind = "return"
            /\ Contains(invoked[k].out.value, "Albany, NY")
            /\ invoked[k].http = HttpGeocode

(***************************************************************************)
(* C6: the transcript only grows by appending: in every step the old       *)
(* transcript is a prefix of the new one (also on every error return), and *)
(* every completion request is given the whole transcript as it stands.    *)
(***************************************************************************)
C6_AppendOnly ==
    [][ /\ IsPrefix(message_list, message_list')
        /\ Len(requests') > Len(requests) =>
               requests'[Len(requests')].messages = message_list ]_vars

C6_Witness ==
    /\ turn >= 2 /\ Len(requests) >= 1
    /\ LET m == requests[1].messages IN
       /\ m[Len(m)].role = "user"
       /\ m[Len(m) - 1].role = "assistant"
       /\ m[Len(m) - 1].tool_calls # <<>>

(***************************************************************************)
(* C7 as stated: when the argument payload of a tool-call request is not   *)
(* valid JSON, the call returns the invalid-arguments error naming that    *)
(* function, does not invoke the adapter for it, dispatches no later       *)
(* request and issues no synthesis request.  It is stated for the calls in *)
(* which no adapter raised, so that its failure does not rest on the       *)
(* defect of an adapter (C5).                                              *)
(***************************************************************************)
C7_Original ==
    (Done /\ Answered /\ AdaptersReturned) =>
        \A i \in DOMAIN Calls :
            Malformed(Calls[i]) =>
                /\ result = InvalidJsonError(Calls[i].name)
                /\ Calls[i].id \notin InvokedIds
                /\ idx <= i
                /\ Len(requests) = 1

(***************************************************************************)
(* C7 amended: when the argument payload of a tool-call request is not     *)
(* valid JSON, its adapter is not invoked, no later request is dispatched  *)
(* and no synthesis request is issued; and when the loop reaches that      *)
(* request (every earlier one was dispatched), the call returns the        *)
(* invalid-arguments error naming that function.                           *)
(***************************************************************************)
C7_InvalidJsonAborts ==
    (Done /\ Answered) =>
        \A i \in DOMAIN Calls :
            Malformed(Calls[i]) =>
                /\ \A k \in DOMAIN invoked : invoked[k].id < Calls[i].id
                /\ idx <= i
                /\ Len(requests) = 1
                /\ idx = i => result = InvalidJsonError(Calls[i].name)

C7_Witness ==
    /\ Done /\ Answered /\ Len(Calls) = 3 /\ idx = 2
    /\ Calls[2].name = "get_weather" /\ Malformed(Calls[2])
    /\ Len(invoked) = 1
    /\ result = InvalidJsonError("get_weather")

(***************************************************************************)
(* C8 as stated: when the first response carries n >= 1 requests that all  *)
(* name registered tools with accepted arguments, the n adapters are       *)
(* invoked in order, n tool messages are appended in that order (i-th:     *)
(* result of the i-th invocation, identifier of the i-th request), then    *)
(* one synthesis request with no tools is issued, whose content is         *)
(* appended as an assistant message and returned.  It is stated for the    *)
(* calls in which no adapter raised, so that its failure does not rest on  *)
(* a defect of an adapter (C5).                                            *)
(***************************************************************************)
C8_Original ==
    (Done /\ Answered /\ Len(Calls) >= 1 /\ \A i \in DOMAIN Calls : Accepted(Calls[i])
          /\ AdaptersReturned) =>
        LET n == Len(Calls) IN
        /\ Len(invoked) = n
        /\ Len(message_list) = ResponsePos + n + 1
        /\ \A i \in 1..n :
              /\ invoked[i].id = Calls[i].id
              /\ message_list[ResponsePos + i] =
                    Message("tool", invoked[i].out.value, <<>>, Calls[i].id)
        /\ Len(requests) = 2
        /\ requests[2].tools = <<>>
        /\ requests[2].messages = SubSeq(message_list, 1, ResponsePos + n)
        /\ message_list[ResponsePos + n + 1] = AssistantMessage(result.value)
        /\ result.kind = "return"

(***************************************************************************)
(* C8 amended: in such a call the adapters are invoked one at a time in    *)
(* request order, until one raises, which ends the call with the           *)
(* incorrect-arguments text when it raised a TypeError and with the        *)
(* execution-error text otherwise; each invocation that returned has its   *)
(* tool message appended, in order, with its result and its request's      *)
(* identifier; once all n are appended exactly one synthesis request is    *)
(* issued over that transcript with no tools offered; if it is answered,   *)
(* its content is appended as an assistant message and returned, and if    *)
(* it fails, the synthesis-error text is returned and nothing is appended. *)
(***************************************************************************)
C8_ToolsThenSynthesis ==
    (Done /\ Answered /\ Len(Calls) >= 1 /\ \A i \in DOMAIN Calls : Accepted(Calls[i])) =>
        LET n == Len(Calls)
            k == Len(invoked)
            m == IF invoked[Len(invoked)].out.kind = "return" THEN k ELSE k - 1
        IN
        /\ k \in 1..n
        /\ \A i \in 1..k : invoked[i].id = Calls[i].id
        /\ \A i \in 1..m :
              /\ invoked[i].out.kind = "return"
              /\ message_list[ResponsePos + i] =
                    Message("tool", invoked[i].out.value, <<>>, Calls[i].id)
        /\ m < k => m < n
        /\ IF m = n
           THEN /\ Len(requests) = 2
                /\ requests[2].tools = <<>>
                /\ requests[2].messages = SubSeq(message_list, 1, ResponsePos + n)
                /\ IF requests[2].ok
                   THEN /\ Len(message_list) = ResponsePos + n + 1
                        /\ result.kind = "return"
                        /\ result.value \in {FinalContent, NoneValue}
                        /\ message_list[ResponsePos + n + 1] = AssistantMessage(result.value)
                   ELSE /\ Len(message_list) = ResponsePos + n
                        /\ result = Return(<<"Error generating final response: ",
                                             str_e(APIError)>>)
           ELSE /\ Len(requests) = 1
                /\ Len(message_list) = ResponsePos + m
                /\ result =
                      IF invoked[k].out.exc = "TypeError"
                      THEN Return(<<"Error: Incorrect arguments for ", Calls[k].name,
                                    ". Details: ", str_e(invoked[k].out)>>)
                      ELSE Return(<<"Error executing ", Calls[k].name, ": ",
                                    str_e(invoked[k].out)>>)

C8_Witness ==
    /\ Done /\ Answered /\ Len(Calls) = 3
    /\ \A i \in DOMAIN Calls : Accepted(Calls[i])
    /\ Calls[1].name = "get_news" /\ Calls[2].name = "get_weather"
    /\ Len(invoked) = 3
    /\ Len(requests) = 2 /\ requests[2].ok
    /\ result = Return(FinalContent)

(***************************************************************************)
(* C9: every tool name advertised in tools_dict is registered, so a        *)
(* tool-call request naming an advertised tool never produces the          *)
(* unknown-tool error.                                                     *)
(***************************************************************************)
C9_AdvertisedToolsRegistered ==
    (Done /\ Answered) =>
        \A i \in DOMAIN Calls :
            (\E j \in DOMAIN tools_dict : tools_dict[j] = Calls[i].name) =>
                result # UnknownToolError(Calls[i].name)

(***************************************************************************)
(* C10: whenever a completion request is issued, every tool-call request   *)
(* carried by an assistant message of the transcript sent is answered by   *)
(* exactly one tool message with its identifier, placed after that         *)
(* assistant message and before any later user message.                    *)
(***************************************************************************)
ToolCallsAnswered(messages) ==
    \A p \in DOMAIN messages :
        messages[p].role = "assistant" =>
            \A c \in DOMAIN messages[p].tool_calls :
                LET id == messages[p].tool_calls[c].id
                    answers == {q \in DOMAIN messages :
                                   /\ messages[q].role = "tool"
                                   /\ messages[q].tool_call_id = id}
                IN  /\ Cardinality(answers) = 1
                    /\ \A q \in answers :
                          /\ q > p
                          /\ \A u \in (p + 1)..(q - 1) : messages[u].role # "user"

C10_ToolCallsAnswered ==
    \A r \in DOMAIN requests : ToolCallsAnswered(requests[r].messages)

====
